---- MODULE Spec2Model ----
(***************************************************************************)
(* WebSink: a GStreamer sink that forwards encoded video buffers to WebRTC *)
(* peers (src/websink/imp.rs) with its HTTP signalling surface             *)
(* (src/websink/imp.rs, src/websink/server.rs).                            *)
(*                                                                         *)
(* Threads of the program and how they appear here:                        *)
(*   - the application thread: start, stop, set_property;                  *)
(*   - the streaming thread: render, in three steps (the first critical    *)
(*     section, the buffer map, the second critical section);              *)
(*   - the workers of the Tokio runtime owned by the sink: write tasks,    *)
(*     signalling requests served by warp, peer state-change observers;    *)
(*   - a caller of the public server::handle_session_request that is not a *)
(*     task of the sink's runtime (server.rs runs it with block_on on the  *)
(*     tiny_http thread);                                                  *)
(*   - the holder of the peer-count receiver;                              *)
(*   - a caller of server::find_available_port and of                      *)
(*     server::start_http_server, whose tiny_http server runs on a thread  *)
(*     of its own;                                                         *)
(*   - the other processes of the host, which bind and release ports.      *)
(* State.lock() is the variable mutex. Every critical section but stop's   *)
(* is one step; stop keeps the mutex while the runtime is dropped.         *)
(***************************************************************************)
EXTENDS Integers, Sequences, FiniteSets, TLC

\* Bounds of the model.
MaxSessions == 1
MaxRenders == 2
MaxStarts == 2
MaxConcurrent == 2

\* mpsc::channel(1)
ChannelCapacity == 1

\* The defaults of the properties.
DEFAULT_PORT == 8091

DEFAULT_STUN_SERVER == "stun:stun.l.google.com:19302"

\* find_available_port tries start_port and the 100 ports after it, up to 65535;
\* ports are u16.
ProbeSpan == 100

MaxPort == 65535

PortModulus == 65536

\* The values the port property and the callers of server.rs ask for: 0 (any
\* port), the default, the highest port.
RequestPorts == {0, DEFAULT_PORT, MaxPort}

\* The values of the stun-server property: none, the default.
StunServers == {"", DEFAULT_STUN_SERVER}

\* The ports the system assigns to a bind of port 0.
EphemeralPorts == {32768, 32769}

\* The ports other processes bind and release one at a time.
EnvPorts == {DEFAULT_PORT, DEFAULT_PORT + 1, MaxPort} \cup EphemeralPorts

Sessions == 1..MaxSessions

\* The requests whose handlers run at the same time where the order of their
\* steps is what matters.
Concurrent == 1..MaxConcurrent

\* Every request there is: the domain of the per-request variables.
Requests == Sessions \cup Concurrent

\* RTCPeerConnectionState; "none" is a request that has no peer connection.
ConnStates == {"New", "Connecting", "Connected", "Disconnected", "Failed", "Closed"}

\* The states the observer evicts on.
TerminalAny == ConnStates

Terminal == {"Disconnected", "Failed", "Closed"}

\* The states a peer connection can move to from state c.
NextConn(c) ==
  CASE c = "New" -> {"Connecting", "Closed"}
    [] c = "Connecting" -> {"Connected", "Failed", "Closed"}
    [] c = "Connected" -> {"Disconnected", "Failed", "Closed"}
    [] c = "Disconnected" -> {"Connected", "Failed", "Closed"}
    [] c = "Failed" -> {"Closed"}
    [] OTHER -> {}

VARIABLES
  settings,     \* Settings: [port, stun_server, is_live]
  state,        \* State behind Arc<Mutex<State>>; 0 is None, e > 0 the value made by the e-th
                \* start; ice_servers is webrtc_config.ice_servers, {} without a configuration
  mutex,        \* who holds State's mutex across steps: "free", "stop" or "caller"
  phase,        \* "null", "started", "stopping" (stop is dropping the runtime)
  epoch,        \* number of successful starts so far
  startResult,  \* what the last start returned: "none", "Ok", "Err"
  chan,         \* the values queued in the peer-count channel
  lastSend,     \* the most recent try_send: [op, count, delivered]
  render_count, \* WebSink::render_count
  rcall,        \* the render call in progress, or the last one: its locals and its return value
                \* and, in caps, the format that was on the pad when the buffer came
  pad,          \* the sink pad: [desc, result], the last format event and its outcome
  tasks,        \* write tasks spawned on the runtime, in spawn order: [track, st]
  writes,       \* write_sample calls made so far
  lastWrite,    \* the track of the most recent write_sample, 0 before the first
  failLogged,   \* "Failed to write sample to WebRTC track" has been logged
  rq,           \* per signalling request: where handle_session_request stands
  via,          \* per request: "runtime" (warp task of the sink's runtime) or "thread"
                \* (the tiny_http thread or another caller outside that runtime)
  snapTrack,    \* per request: the track cloned by its snapshot, 0 before
  status,       \* per request: the status of its HTTP response, 0 before the response
  err,          \* per request: the error it returned, "none" if none
  created,      \* per request: new_peer_connection has returned a peer connection
  localDesc,    \* per request: set_local_description has succeeded
  pushed,       \* per request: its insert called try_send
  offer,        \* per request: the offer it carries and the offer given to handle_session_request
  reply,        \* per request: the fields of the JSON body of its response
  conn,         \* per request: the state of its peer connection, "none" without one
  obsPending,   \* per request: its observer was called for a terminal state and is at state.lock()
  evicted,      \* per request: its observer has run its removal
  occupied,     \* the ports on which processes other than the sink listen
  server,       \* the warp server task spawned by start: [st, port, bound, busy, alt]
  tiny,         \* the tiny_http server of server::start_http_server: [st, port, bound, ret]
  find,         \* the call of find_available_port in progress, or the last one
  atStart,      \* the settings as they were at the most recent successful start
  http,         \* the HTTP request answered last: the request and its response
  locks         \* per thread: the operation it is in, its place in the operation's
                \* sequence of lock and unlock calls, and the mutexes it holds

vars == <<settings, state, mutex, phase, epoch, startResult, chan, lastSend,
          render_count, rcall, pad, tasks, writes, lastWrite, failLogged,
          rq, via, snapTrack, status, err, created, localDesc, pushed, offer, reply,
          conn, obsPending, evicted, occupied, server, tiny, find, atStart, http, locks>>

sinkVars == <<settings, state, mutex, phase, epoch, startResult>>
chanVars == <<chan, lastSend>>
renderVars == <<render_count, rcall, pad>>
taskVars == <<tasks, writes, lastWrite, failLogged>>
reqVars == <<rq, via, snapTrack, status, err, created, localDesc, pushed, offer, reply>>
connVars == <<conn, obsPending, evicted>>
netVars == <<occupied, server, tiny, find, atStart, http, locks>>

\* State::default()
StateDefault ==
  [runtime |-> 0, server_handle |-> 0, peer_connections |-> {},
   unblock_tx |-> 0, unblock_rx |-> 0, video_track |-> 0, webrtc_config |-> 0,
   ice_servers |-> {}]

\* Settings::default()
SettingsDefault ==
  [port |-> DEFAULT_PORT, stun_server |-> DEFAULT_STUN_SERVER, is_live |-> FALSE]

\* No server task: before start and after stop.
NoServer == [st |-> "none", port |-> 0, bound |-> 0, busy |-> FALSE, alt |-> FALSE]

\* server::start_http_server has not been called.
NoTiny == [st |-> "none", port |-> 0, bound |-> 0, ret |-> "none"]

\* find_available_port has not been called.
NoFind ==
  [pc |-> "idle", caller |-> "none", start_port |-> 0, port |-> 0, max_port |-> 0,
   failed |-> {}, result |-> "none", ret |-> 0]

\* No format: a pad that has seen no format event.
NoCaps ==
  [media |-> "none", encoding |-> "none", stream_format |-> "none", alignment |-> "none"]

\* The sink pad before its first format event.
NoPad == [desc |-> NoCaps, result |-> "none"]

\* The threads that take the element's mutexes: the streaming thread, which calls
\* render; two threads of the application, which change the element's state and
\* read and write its properties; a worker of the runtime.
Threads == {"streaming", "app1", "app2", "worker"}

\* No payload: the buffer is not mapped, or no copy of it was made.
NoData == 0

\* A thread that is in none of the element's operations.
NoOp == [op |-> "idle", pc |-> 0, held |-> {}]

\* No HTTP request has been answered.
NoRequest ==
  [front |-> "none", method |-> "none", url |-> "none", status |-> 0,
   served |-> "none", route |-> "none"]

NoCall ==
  [pc |-> "idle", num_peers |-> 0, is_live |-> FALSE, mappable |-> TRUE,
   map |-> "none", spawned |-> FALSE, result |-> "none", track |-> 0, caps |-> NoCaps,
   data |-> NoData, data_copy |-> NoData]

NoSend == [op |-> "none", count |-> 0, delivered |-> FALSE]

\* WebSink::default()
Init ==
  /\ settings = SettingsDefault
  /\ state = StateDefault
  /\ mutex = "free"
  /\ phase = "null"
  /\ epoch = 0
  /\ startResult = "none"
  /\ chan = <<>>
  /\ lastSend = NoSend
  /\ render_count = 0
  /\ rcall = NoCall
  /\ pad = NoPad
  /\ tasks = <<>>
  /\ writes = 0
  /\ lastWrite = 0
  /\ failLogged = FALSE
  /\ rq = [r \in Requests |-> "idle"]
  /\ via = [r \in Requests |-> "runtime"]
  /\ snapTrack = [r \in Requests |-> 0]
  /\ status = [r \in Requests |-> 0]
  /\ err = [r \in Requests |-> "none"]
  /\ created = [r \in Requests |-> FALSE]
  /\ localDesc = [r \in Requests |-> FALSE]
  /\ pushed = [r \in Requests |-> FALSE]
  /\ offer = [r \in Requests |-> [body |-> "none", given |-> "none"]]
  /\ reply = [r \in Requests |-> {}]
  /\ conn = [r \in Requests |-> "none"]
  /\ obsPending = [r \in Requests |-> FALSE]
  /\ evicted = [r \in Requests |-> FALSE]
  /\ occupied = {}
  /\ server = NoServer
  /\ tiny = NoTiny
  /\ find = NoFind
  /\ atStart = SettingsDefault
  /\ http = NoRequest
  /\ locks = [t \in Threads |-> NoOp]

\* The sequence s without its i-th element.
RemoveAt(s, i) == [j \in 1..(Len(s) - 1) |-> IF j < i THEN s[j] ELSE s[j + 1]]

\* The tasks of s that are in state st, in order.
RECURSIVE SelectTasks(_, _)
SelectTasks(s, st) ==
  IF s = <<>> THEN <<>>
  ELSE IF Head(s).st = st THEN <<Head(s)>> \o SelectTasks(Tail(s), st)
  ELSE SelectTasks(Tail(s), st)

\* tx.try_send(v) on a channel holding ch: queued if there is room, dropped if full.
TrySend(ch, v) == IF Len(ch) < ChannelCapacity THEN Append(ch, v) ELSE ch

\* Whether tx.try_send on a channel holding ch returns Ok.
TrySendOk(ch) == Len(ch) < ChannelCapacity

(***************************************************************************)
(* BaseSinkImpl: start, stop; ObjectImpl: set_property                     *)
(***************************************************************************)

\* The ice_servers of the configuration start builds from the stun-server setting.
IceServersNone(stun) == {}

IceServers(stun) == IF stun = "" THEN {} ELSE {stun}

\* start, Runtime::new() succeeding: the runtime, the channel, the track and the
\* configuration are stored and the HTTP server task is spawned with the port
\* setting, in one critical section. start returns Ok before the task runs.
Start ==
  /\ phase = "null"
  /\ mutex = "free"
  /\ epoch < MaxStarts
  /\ epoch' = epoch + 1
  /\ state' = [state EXCEPT !.runtime = epoch + 1, !.unblock_tx = epoch + 1,
                            !.unblock_rx = epoch + 1, !.video_track = epoch + 1,
                            !.webrtc_config = epoch + 1, !.server_handle = epoch + 1,
                            !.ice_servers = IceServers(settings.stun_server)]
  /\ server' = [NoServer EXCEPT !.st = "spawned", !.port = settings.port]
  /\ atStart' = settings
  /\ chan' = <<>>
  /\ phase' = "started"
  /\ startResult' = "Ok"
  /\ UNCHANGED <<settings, mutex, lastSend>>
  /\ UNCHANGED <<renderVars, taskVars, reqVars, connVars>>
  /\ UNCHANGED <<occupied, tiny, find>>
  /\ UNCHANGED <<http, locks>>

\* The ports the sink's own servers listen on.
OwnBound == {server.bound, tiny.bound} \ {0}

\* A bind of port p succeeds.
Bindable(p) == p \notin (occupied \cup OwnBound)

\* The ports a bind of port 0 can be given.
FreeEphemeral == {p \in EphemeralPorts : Bindable(p)}

Min(a, b) == IF a < b THEN a ELSE b

\* u16::saturating_add
SaturatingAdd(a, b) == IF a + b > MaxPort THEN MaxPort ELSE a + b

\* max_port of find_available_port
MaxProbe(start_port) == Min(SaturatingAdd(start_port, ProbeSpan), MaxPort)

\* The server task runs warp::serve(routes).run(([0, 0, 0, 0], port)): it binds the
\* port the task was spawned with, any free port for 0, and panics when the bind
\* fails, which ends the task and nothing else. busy and alt record that the
\* port was taken and that some port among the next 100 was free.
ServerBind ==
  /\ phase = "started"
  /\ server.st = "spawned"
  /\ IF server.port = 0
     THEN IF FreeEphemeral = {}
          THEN server' = [server EXCEPT !.st = "failed"]
          ELSE \E p \in FreeEphemeral :
                 server' = [server EXCEPT !.st = "listening", !.bound = p]
     ELSE IF Bindable(server.port)
          THEN server' = [server EXCEPT !.st = "listening", !.bound = server.port]
          ELSE server' = [server EXCEPT
                            !.st = "failed", !.busy = TRUE,
                            !.alt = \E q \in (server.port + 1)..MaxProbe(server.port) :
                                      Bindable(q)]
  /\ UNCHANGED <<sinkVars, chanVars, renderVars, taskVars, reqVars, connVars>>
  /\ UNCHANGED <<occupied, tiny, find, atStart>>
  /\ UNCHANGED <<http, locks>>

\* start, Runtime::new() failing: the error is returned and nothing is stored.
StartFail ==
  /\ phase = "null"
  /\ startResult' = "Err"
  /\ UNCHANGED <<settings, state, mutex, phase, epoch, chanVars>>
  /\ UNCHANGED <<renderVars, taskVars, reqVars, connVars>>
  /\ UNCHANGED netVars

\* The tasks of a runtime that is being dropped: a task that is not being polled is
\* dropped at once, a task that is being polled runs on until it yields.
RuntimeShutdownLeak(ts) == ts

RuntimeShutdown(ts) == SelectTasks(ts, "running")

\* Whether request r is a task of the sink's runtime that is being polled.
MidPoll(r) == via[r] = "runtime" /\ rq[r] \in {"insert", "inserted"}

\* What stop clears before it drops the runtime: the handle of the aborted server
\* task, the peer registry and both ends of the peer-count channel.
StopClearKeepPeers(st) ==
  [st EXCEPT !.server_handle = 0, !.unblock_tx = 0, !.unblock_rx = 0]

StopClear(st) ==
  [st EXCEPT !.server_handle = 0, !.peer_connections = {},
             !.unblock_tx = 0, !.unblock_rx = 0]

\* stop, from state.lock() to `state.runtime = None`: the server task is aborted, the
\* registry cleared, the channel dropped, and the drop of the runtime begins: a
\* task of server::start_http_server that has not run is dropped, its thread, once
\* spawned, is not a task. The mutex stays held.
StopBegin ==
  /\ phase = "started"
  /\ mutex = "free"
  /\ mutex' = "stop"
  /\ phase' = "stopping"
  /\ state' = StopClear(state)
  /\ chan' = <<>>
  /\ tasks' = RuntimeShutdown(tasks)
  /\ rq' = [r \in Requests |->
              IF via[r] = "runtime" /\ rq[r] \in {"accepted", "snap"}
              THEN "dropped" ELSE rq[r]]
  /\ server' = IF server.st \in {"spawned", "listening"}
                THEN [server EXCEPT !.st = "aborted"] ELSE server
  /\ tiny' = IF tiny.st = "spawned" THEN [tiny EXCEPT !.st = "dropped"] ELSE tiny
  /\ UNCHANGED <<settings, epoch, startResult, lastSend, renderVars>>
  /\ UNCHANGED <<writes, lastWrite, failLogged, occupied, find, atStart>>
  /\ UNCHANGED <<via, snapTrack, status, err, created, localDesc, pushed, offer, reply>>
  /\ UNCHANGED connVars
  /\ UNCHANGED <<http, locks>>

\* stop, from the return of the runtime's drop to the end: dropping the runtime
\* returns when no worker is polling a task; then the track and the configuration
\* are cleared and the mutex is released. The peer connections and the warp
\* server with its listener, whose tasks ran on that runtime, are gone.
StopEnd ==
  /\ phase = "stopping"
  /\ \A i \in 1..Len(tasks) : tasks[i].st # "running"
  /\ \A r \in Requests : ~MidPoll(r) /\ ~(via[r] = "runtime" /\ obsPending[r])
  /\ state' = [state EXCEPT !.runtime = 0, !.video_track = 0, !.webrtc_config = 0,
                            !.ice_servers = {}]
  /\ server' = NoServer
  /\ mutex' = "free"
  /\ phase' = "null"
  /\ conn' = [r \in Requests |-> "none"]
  /\ UNCHANGED <<occupied, tiny, find, atStart>>
  /\ UNCHANGED <<settings, epoch, startResult, chanVars>>
  /\ UNCHANGED <<renderVars, taskVars, reqVars, obsPending, evicted>>
  /\ UNCHANGED <<http, locks>>

\* set_property("is-live", b)
SetIsLive(b) ==
  /\ settings.is_live # b
  /\ settings' = [settings EXCEPT !.is_live = b]
  /\ UNCHANGED <<state, mutex, phase, epoch, startResult, chanVars>>
  /\ UNCHANGED <<renderVars, taskVars, reqVars, connVars>>
  /\ UNCHANGED netVars

\* set_property("port", p)
SetPort(p) ==
  /\ settings.port # p
  /\ settings' = [settings EXCEPT !.port = p]
  /\ UNCHANGED <<state, mutex, phase, epoch, startResult, chanVars>>
  /\ UNCHANGED <<renderVars, taskVars, reqVars, connVars>>
  /\ UNCHANGED netVars

\* set_property("stun-server", Some(s))
SetStunServer(stun) ==
  /\ settings.stun_server # stun
  /\ settings' = [settings EXCEPT !.stun_server = stun]
  /\ UNCHANGED <<state, mutex, phase, epoch, startResult, chanVars>>
  /\ UNCHANGED <<renderVars, taskVars, reqVars, connVars>>
  /\ UNCHANGED netVars

(***************************************************************************)
(* Other processes on the host                                             *)
(***************************************************************************)

\* Another process starts to listen on port p.
EnvBind(p) ==
  /\ Bindable(p)
  /\ occupied' = occupied \cup {p}
  /\ UNCHANGED <<sinkVars, chanVars, renderVars, taskVars, reqVars, connVars>>
  /\ UNCHANGED <<server, tiny, find, atStart>>
  /\ UNCHANGED <<http, locks>>

\* Another process closes its listener on port p.
EnvRelease(p) ==
  /\ p \in occupied
  /\ occupied' = occupied \ {p}
  /\ UNCHANGED <<sinkVars, chanVars, renderVars, taskVars, reqVars, connVars>>
  /\ UNCHANGED <<server, tiny, find, atStart>>
  /\ UNCHANGED <<http, locks>>

\* Other processes take every free port from the default port to the last port
\* find_available_port would try after it.
EnvBindBlock ==
  /\ \E q \in DEFAULT_PORT..MaxProbe(DEFAULT_PORT) : Bindable(q)
  /\ occupied' = occupied \cup {q \in DEFAULT_PORT..MaxProbe(DEFAULT_PORT) : Bindable(q)}
  /\ UNCHANGED <<sinkVars, chanVars, renderVars, taskVars, reqVars, connVars>>
  /\ UNCHANGED <<server, tiny, find, atStart>>
  /\ UNCHANGED <<http, locks>>

(***************************************************************************)
(* server.rs: find_available_port, start_http_server                       *)
(***************************************************************************)

\* The port find_available_port(0) returns: listener.local_addr()?.port().
AssignedPortRequested(start_port, assigned) == start_port

AssignedPort(start_port, assigned) == assigned

\* "if port == 65535 { break; // Avoid overflow }"
AtTopNever(port) == FALSE

AtTop(port) == port = MaxPort

\* port += 1, on a u16
NextPortSkip(port) == (port + 2) % PortModulus

NextPort(port) == (port + 1) % PortModulus

\* TcpListener::bind("127.0.0.1:<port>") succeeds; port 0 asks for any free port.
BindSucceeds(port) == IF port = 0 THEN FreeEphemeral # {} ELSE Bindable(port)

\* The call as find_available_port(start_port) leaves it before the loop: returned,
\* for start_port = 0 (Ok with the port the system assigned, the listener
\* dropped, or the error of the bind), or about to try start_port.
FindEnter(start_port, who) ==
  LET call == [NoFind EXCEPT !.caller = who, !.start_port = start_port]
  IN IF start_port = 0
     THEN IF FreeEphemeral = {}
          THEN {[call EXCEPT !.pc = "done", !.result = "Err"]}
          ELSE {[call EXCEPT !.pc = "done", !.result = "Ok",
                             !.ret = AssignedPort(start_port, p)] : p \in FreeEphemeral}
     ELSE {[call EXCEPT !.pc = "probe", !.port = start_port,
                        !.max_port = MaxProbe(start_port)]}

\* One turn of the loop of find_available_port: the loop ends with the error when
\* port is past max_port; a bind that succeeds returns the port (the listener is
\* dropped on return); a bind that fails ends the loop at 65535 and moves to the
\* next port otherwise.
FindTurn(call) ==
  IF call.port > call.max_port
  THEN [call EXCEPT !.pc = "done", !.result = "Err"]
  ELSE IF BindSucceeds(call.port)
  THEN [call EXCEPT !.pc = "done", !.result = "Ok", !.ret = call.port]
  ELSE IF AtTop(call.port)
  THEN [call EXCEPT !.pc = "done", !.result = "Err", !.failed = @ \cup {call.port}]
  ELSE [call EXCEPT !.port = NextPort(call.port), !.failed = @ \cup {call.port}]

\* What start_http_server does with the result of find_available_port: the error
\* is returned; with a port the task that will bind it is spawned and
\* Ok((handle, port)) is returned.
AfterFind(call) ==
  IF call.caller # "server" \/ call.pc # "done" THEN tiny
  ELSE IF call.result = "Ok"
  THEN [NoTiny EXCEPT !.st = "spawned", !.port = call.ret, !.ret = "Ok"]
  ELSE [NoTiny EXCEPT !.ret = "Err"]

\* The caller of start_http_server holds the state's mutex, in which the runtime
\* it passes is kept, until start_http_server returns.
MutexAfterFind(call) ==
  IF call.caller # "server" THEN mutex
  ELSE IF call.pc = "done" THEN "free" ELSE "caller"

\* find_available_port(start_port), called on its own.
FindAvailablePort(start_port) ==
  /\ find.pc # "probe"
  /\ find' \in FindEnter(start_port, "test")
  /\ UNCHANGED <<sinkVars, chanVars, renderVars, taskVars, reqVars, connVars>>
  /\ UNCHANGED <<occupied, server, tiny, atStart>>
  /\ UNCHANGED <<http, locks>>

\* The loop of find_available_port, one port at a time.
FindProbe ==
  /\ find.pc = "probe"
  /\ find' = FindTurn(find)
  /\ tiny' = AfterFind(find')
  /\ mutex' = MutexAfterFind(find')
  /\ UNCHANGED <<settings, state, phase, epoch, startResult>>
  /\ UNCHANGED <<chanVars, renderVars, taskVars, reqVars, connVars>>
  /\ UNCHANGED <<occupied, server, atStart>>
  /\ UNCHANGED <<http, locks>>

\* server::start_http_server(state, requested_port, rt), called with the state and
\* the runtime of the started sink.
StartHttpServer(requested_port) ==
  /\ phase = "started"
  /\ mutex = "free"
  /\ find.pc # "probe"
  /\ tiny.st \notin {"spawned", "listening"}
  /\ find' \in FindEnter(requested_port, "server")
  /\ tiny' = AfterFind(find')
  /\ mutex' = MutexAfterFind(find')
  /\ UNCHANGED <<settings, state, phase, epoch, startResult>>
  /\ UNCHANGED <<chanVars, renderVars, taskVars, reqVars, connVars>>
  /\ UNCHANGED <<occupied, server, atStart>>
  /\ UNCHANGED <<http, locks>>

\* The task spawned by start_http_server runs: Server::http("0.0.0.0:<port>") binds
\* the port and hands the server to a thread of its own, or fails, which is logged.
TinyBind ==
  /\ phase = "started"
  /\ tiny.st = "spawned"
  /\ tiny' = IF Bindable(tiny.port)
              THEN [tiny EXCEPT !.st = "listening", !.bound = tiny.port]
              ELSE [tiny EXCEPT !.st = "failed"]
  /\ UNCHANGED <<sinkVars, chanVars, renderVars, taskVars, reqVars, connVars>>
  /\ UNCHANGED <<occupied, server, find, atStart>>
  /\ UNCHANGED <<http, locks>>

(***************************************************************************)
(* ElementImpl::pad_templates and the format events of the sink pad        *)
(***************************************************************************)

\* The formats upstream elements offer: encoded video with its stream-format and
\* alignment where the format has them, RTP with an encoding-name, and one format
\* that is not video.
Descriptors ==
  {[media |-> "video/x-h264", encoding |-> "none", stream_format |-> f, alignment |-> a] :
     f \in {"byte-stream", "avc"}, a \in {"au", "nal"}}
  \cup {[media |-> m, encoding |-> "none", stream_format |-> "none", alignment |-> "none"] :
           m \in {"video/x-h265", "video/x-vp8", "video/x-vp9", "audio/mpeg"}}
  \cup {[media |-> "application/x-rtp", encoding |-> e, stream_format |-> "none",
          alignment |-> "none"] : e \in {"H264", "H265", "VP8", "VP9", "OPUS"}}

\* The caps of the only pad template, "sink".
PadTemplateCaps ==
  [media |-> "video/x-h264", encoding |-> "none", stream_format |-> "byte-stream",
   alignment |-> "au"]

\* A format event is accepted when its caps are compatible with the template's.
AcceptCaps(d) ==
  /\ d.media = PadTemplateCaps.media
  /\ d.stream_format = PadTemplateCaps.stream_format
  /\ d.alignment = PadTemplateCaps.alignment

\* No codec and no mode: the format is not supported.
Unsupported == [codec |-> "none", mode |-> "none"]

\* How the buffers of a format are carried: an accepted format goes to the one
\* track start creates, an H.264 TrackLocalStaticSample; there is no other track.
Classify(d) ==
  IF AcceptCaps(d) THEN [codec |-> "H264", mode |-> "Sample"] ELSE Unsupported

\* A format event with caps d arrives on the sink pad. Neither outcome touches the
\* shared state: the track is made by start and taken by stop.
CapsEvent(d) ==
  /\ pad' = [desc |-> d, result |-> IF AcceptCaps(d) THEN "accepted" ELSE "rejected"]
  /\ pad' # pad
  /\ UNCHANGED <<render_count, rcall>>
  /\ UNCHANGED <<sinkVars, chanVars, taskVars, reqVars, connVars>>
  /\ UNCHANGED netVars

(***************************************************************************)
(* BaseSinkImpl::render                                                    *)
(***************************************************************************)

\* "In live mode, we skip rendering if no peers are connected"
SkipBufferNever(live, n) == FALSE

SkipBuffer(live, n) == live /\ n = 0

\* "Send to video track if we have peers"
HasPeersAlways(n) == TRUE

HasPeers(n) == n > 0

\* The two `if let Some(..)` of the second critical section.
CanSpawnAlways(st) == TRUE

CanSpawn(st) == st.video_track # 0 /\ st.runtime # 0

\* render's first critical section: num_peers and is_live are read, render_count is
\* bumped, and the call returns Ok at once when the buffer is skipped.
RenderRead(m) ==
  /\ rcall.pc = "idle"
  /\ mutex = "free"
  /\ render_count < MaxRenders
  /\ render_count' = render_count + 1
  /\ pad' = pad
  /\ LET n == Cardinality(state.peer_connections)
         live == settings.is_live
         call == [pc |-> "map", num_peers |-> n, is_live |-> live, mappable |-> m,
                  map |-> "none", spawned |-> FALSE, result |-> "none",
                  track |-> state.video_track, caps |-> pad.desc,
                  data |-> NoData, data_copy |-> NoData]
     IN rcall' = IF SkipBuffer(live, n)
                 THEN [call EXCEPT !.pc = "idle", !.result = "Ok"]
                 ELSE call
  /\ UNCHANGED <<sinkVars, chanVars, taskVars, reqVars, connVars>>
  /\ UNCHANGED netVars

\* The payload of the n-th buffer that reaches render: buffers differ in payload.
BufferData(n) == n

\* buffer.map_readable(): a failure returns FlowError::Error; without peers the
\* call returns Ok.
RenderMap ==
  /\ rcall.pc = "map"
  /\ rcall' = IF ~rcall.mappable
              THEN [rcall EXCEPT !.pc = "idle", !.map = "err", !.result = "Error"]
              ELSE IF HasPeers(rcall.num_peers)
              THEN [rcall EXCEPT !.pc = "dispatch", !.map = "ok",
                                 !.data = BufferData(render_count)]
              ELSE [rcall EXCEPT !.pc = "idle", !.map = "ok", !.result = "Ok",
                                 !.data = BufferData(render_count)]
  /\ render_count' = render_count
  /\ pad' = pad
  /\ UNCHANGED <<sinkVars, chanVars, taskVars, reqVars, connVars>>
  /\ UNCHANGED netVars

\* bytes::Bytes::copy_from_slice: a new allocation with the contents of the slice.
CopyFromSlice(data) == data

\* runtime.spawn: the task joins the tasks of the runtime behind those spawned
\* before it.
SpawnFirst(ts, t) == <<t>> \o ts

Spawn(ts, t) == Append(ts, t)

\* render's second critical section: with a track and a runtime in the state the
\* write task is spawned; the call returns Ok either way.
RenderDispatch ==
  /\ rcall.pc = "dispatch"
  /\ mutex = "free"
  /\ rcall' = [rcall EXCEPT !.pc = "idle", !.result = "Ok",
                            !.track = state.video_track,
                            !.spawned = CanSpawn(state),
                            !.data_copy = IF CanSpawn(state)
                                          THEN CopyFromSlice(rcall.data)
                                          ELSE NoData]
  /\ tasks' = IF CanSpawn(state)
              THEN Spawn(tasks, [track |-> state.video_track, st |-> "pending"])
              ELSE tasks
  /\ render_count' = render_count
  /\ pad' = pad
  /\ UNCHANGED <<sinkVars, chanVars, writes, lastWrite, failLogged, reqVars, connVars>>
  /\ UNCHANGED netVars

(***************************************************************************)
(* The write task spawned by render                                        *)
(***************************************************************************)

\* A worker of the runtime starts polling the i-th task.
TaskPoll(i) ==
  /\ i \in 1..Len(tasks)
  /\ tasks[i].st = "pending"
  /\ tasks' = [tasks EXCEPT ![i].st = "running"]
  /\ UNCHANGED <<sinkVars, chanVars, renderVars, writes, lastWrite, failLogged>>
  /\ UNCHANGED <<reqVars, connVars>>
  /\ UNCHANGED netVars

\* What a write_sample with outcome ok leaves of the last render call: the outcome
\* is logged, the call is not touched.
AfterWritePropagate(call, ok) == IF ok THEN call ELSE [call EXCEPT !.result = "Error"]

AfterWrite(call, ok) == call

\* track.write_sample(&sample).await of the i-th task, Ok or Err.
WriteSample(i, ok) ==
  /\ i \in 1..Len(tasks)
  /\ tasks[i].st = "running"
  /\ tasks' = RemoveAt(tasks, i)
  /\ writes' = writes + 1
  /\ lastWrite' = tasks[i].track
  /\ failLogged' = (failLogged \/ ~ok)
  /\ rcall' = AfterWrite(rcall, ok)
  /\ render_count' = render_count
  /\ pad' = pad
  /\ UNCHANGED <<sinkVars, chanVars, reqVars, connVars>>
  /\ UNCHANGED netVars

\* While the runtime is dropped a task that yields inside write_sample is dropped
\* there, before the write.
TaskCancel(i) ==
  /\ phase = "stopping"
  /\ i \in 1..Len(tasks)
  /\ tasks[i].st = "running"
  /\ tasks' = RemoveAt(tasks, i)
  /\ UNCHANGED <<sinkVars, chanVars, renderVars, writes, lastWrite, failLogged>>
  /\ UNCHANGED <<reqVars, connVars>>
  /\ UNCHANGED netVars

(***************************************************************************)
(* handle_session_request and the routes that call it                      *)
(***************************************************************************)

\* Whether the runtime that start number e created is running.
RuntimeAlive(e) == phase = "started" /\ epoch = e /\ e # 0

\* The status of the response to a request that returned res: warp answers the
\* SessionError rejection with 500, tiny_http is given 500 explicitly.
HttpStatus(res) == IF res = "Ok" THEN 200 ELSE 500

\* The configuration and the track are both in the state.
ReadyAlways(st) == TRUE

Ready(st) == st.webrtc_config # 0 /\ st.video_track # 0

\* What a request can carry as its offer: a JSON value that deserialises to an
\* RTCSessionDescription ("valid"), one that does not ("invalid"); "placeholder"
\* is the json!({}) of handle_session_request_http.
Offers == {"valid", "invalid"}

\* Who calls handle_session_request: the warp route of imp.rs, a task of the
\* sink's runtime; the tiny_http route of server.rs, on its own thread; a direct
\* caller of the public function of server.rs.
Routes == {"warp", "tiny_http", "direct"}

\* The offer a route hands to handle_session_request for a request that carries
\* the offer o: warp deserialises the body into the SessionRequest, the tiny_http
\* route does not read the body and makes a SessionRequest of its own.
RouteOffer(route, o) == IF route = "tiny_http" THEN "placeholder" ELSE o

\* A POST /api/session is handed to handle_session_request: by the warp route,
\* which exists while the server task does, or by a caller that is not a task of
\* the sink's runtime. Requests are numbered in the order of their arrival.
Accept(r, route, o) ==
  /\ rq[r] = "idle"
  /\ \A q \in Sessions : q < r => rq[q] # "idle"
  /\ route = "warp" =>
       (phase = "started" /\ state.server_handle # 0 /\ server.st = "listening")
  /\ rq' = [rq EXCEPT ![r] = "accepted"]
  /\ via' = [via EXCEPT ![r] = IF route = "warp" THEN "runtime" ELSE "thread"]
  /\ offer' = [offer EXCEPT ![r] = [body |-> o, given |-> RouteOffer(route, o)]]
  /\ UNCHANGED <<sinkVars, chanVars, renderVars, taskVars, connVars>>
  /\ UNCHANGED <<snapTrack, status, err, created, localDesc, pushed, reply>>
  /\ UNCHANGED netVars

\* Step 1, the first critical section: the configuration and the track are cloned,
\* or the request fails because one of them is None.
Snapshot(r) ==
  /\ rq[r] = "accepted"
  /\ mutex = "free"
  /\ IF Ready(state)
     THEN /\ rq' = [rq EXCEPT ![r] = "snap"]
          /\ snapTrack' = [snapTrack EXCEPT ![r] = state.video_track]
          /\ UNCHANGED <<status, err>>
     ELSE /\ rq' = [rq EXCEPT ![r] = "failed"]
          /\ err' = [err EXCEPT ![r] = "NotReady"]
          /\ status' = [status EXCEPT ![r] = HttpStatus("Err")]
          /\ UNCHANGED snapTrack
  /\ UNCHANGED <<sinkVars, chanVars, renderVars, taskVars, connVars>>
  /\ UNCHANGED <<via, created, localDesc, pushed, offer, reply>>
  /\ UNCHANGED netVars

\* The ways steps 2 to 6 end: "EngineError" before a peer connection exists (the
\* media engine, the interceptors, new_peer_connection), "OfferError" when
\* serde_json::from_value rejects the offer, "SdpError" with a peer connection
\* and no local description (add_track, set_remote_description, create_answer,
\* set_local_description), "NoLocalDescription" when local_description() is None
\* after gathering, "ok" otherwise.
Outcomes == {"ok", "EngineError", "OfferError", "SdpError", "NoLocalDescription"}

\* serde_json::from_value::<RTCSessionDescription>(req.offer) succeeds.
OfferParses(o) == o = "valid"

\* Steps 2 to 6, from the first await to the read of the final answer. They succeed
\* only on a running runtime. On failure the peer connection is dropped at
\* function exit.
Negotiate(r, out) ==
  /\ rq[r] = "snap"
  /\ out \in Outcomes
  /\ out = "ok" => RuntimeAlive(snapTrack[r])
  /\ out = "OfferError" <=> (~OfferParses(offer[r].given) /\ out \notin {"EngineError", "SdpError"})
  /\ created' = [created EXCEPT ![r] = (out # "EngineError")]
  /\ localDesc' = [localDesc EXCEPT ![r] = (out \in {"ok", "NoLocalDescription"})]
  /\ IF out = "ok"
     THEN /\ rq' = [rq EXCEPT ![r] = "insert"]
          /\ conn' = [conn EXCEPT ![r] = "New"]
          /\ UNCHANGED <<status, err>>
     ELSE /\ rq' = [rq EXCEPT ![r] = "failed"]
          /\ err' = [err EXCEPT ![r] = out]
          /\ status' = [status EXCEPT ![r] = HttpStatus("Err")]
          /\ UNCHANGED conn
  /\ UNCHANGED <<sinkVars, chanVars, renderVars, taskVars>>
  /\ UNCHANGED <<via, snapTrack, pushed, offer, reply, obsPending, evicted>>
  /\ UNCHANGED netVars

\* The request has its final answer and is at the state.lock() of step 7.
InsertReadyEarly(r) == rq[r] \in {"snap", "insert"}

InsertReady(r) == rq[r] = "insert"

\* state_guard.peer_connections.len(), taken after the insert or the removal in
\* the same critical section; before is the registry as the section found it.
PeerCountStale(before, after) == Cardinality(before)

PeerCount(before, after) == Cardinality(after)

\* state_guard.peer_connections.insert(session_id, ..): the session id is a fresh
\* random UUID, so the insert adds an entry and replaces none.
InsertSessionLost(pcs, r) == {r}

InsertSession(pcs, r) == pcs \cup {r}

\* Step 7, the second critical section: the session is inserted and the new count
\* is offered to the channel.
Insert(r) ==
  /\ InsertReady(r)
  /\ mutex = "free"
  /\ LET pcs == InsertSession(state.peer_connections, r)
         count == PeerCount(state.peer_connections, pcs)
     IN /\ state' = [state EXCEPT !.peer_connections = pcs]
        /\ IF state.unblock_tx # 0
           THEN /\ chan' = TrySend(chan, count)
                /\ lastSend' = [op |-> "insert", count |-> count,
                                delivered |-> TrySendOk(chan)]
           ELSE UNCHANGED <<chan, lastSend>>
  /\ pushed' = [pushed EXCEPT ![r] = (state.unblock_tx # 0)]
  /\ rq' = [rq EXCEPT ![r] = "inserted"]
  /\ UNCHANGED <<settings, mutex, phase, epoch, startResult>>
  /\ UNCHANGED <<renderVars, taskVars, connVars>>
  /\ UNCHANGED <<via, snapTrack, status, err, created, localDesc, offer, reply>>
  /\ UNCHANGED netVars

\* The fields of SessionResponse, which both routes serialise as the body of a
\* successful response.
SessionResponseNoId == {"answer"}

SessionResponse == {"answer", "session_id"}

\* Steps 8 and 9: the observer is registered and the request returns
\* Ok(SessionResponse), which the route serialises.
RegisterObserver(r) ==
  /\ rq[r] = "inserted"
  /\ rq' = [rq EXCEPT ![r] = "ok"]
  /\ status' = [status EXCEPT ![r] = HttpStatus("Ok")]
  /\ reply' = [reply EXCEPT ![r] = SessionResponse]
  /\ UNCHANGED <<sinkVars, chanVars, renderVars, taskVars, connVars>>
  /\ UNCHANGED <<via, snapTrack, err, created, localDesc, pushed, offer>>
  /\ UNCHANGED netVars

(***************************************************************************)
(* Peer connections and the state-change observer                          *)
(***************************************************************************)

\* The peer connection of request r moves to state s. With the observer registered
\* the observer is called; for a terminal state it goes on to state.lock().
ConnChange(r, s) ==
  /\ rq[r] \in {"inserted", "ok"}
  /\ RuntimeAlive(snapTrack[r])
  /\ ~obsPending[r]
  /\ s \in NextConn(conn[r])
  /\ conn' = [conn EXCEPT ![r] = s]
  /\ obsPending' = [obsPending EXCEPT ![r] = (rq[r] = "ok" /\ s \in Terminal)]
  /\ UNCHANGED evicted
  /\ UNCHANGED <<sinkVars, chanVars, renderVars, taskVars, reqVars>>
  /\ UNCHANGED netVars

\* state_guard.peer_connections.remove(&session_id)
RemoveNothing(pcs, r) == pcs

Remove(pcs, r) == pcs \ {r}

\* The observer's critical section for a terminal state: the session is removed
\* and the new count is offered to the channel.
ObserverEvict(r) ==
  /\ obsPending[r]
  /\ mutex = "free"
  /\ LET pcs == Remove(state.peer_connections, r)
         count == PeerCount(state.peer_connections, pcs)
     IN /\ state' = [state EXCEPT !.peer_connections = pcs]
        /\ IF state.unblock_tx # 0
           THEN /\ chan' = TrySend(chan, count)
                /\ lastSend' = [op |-> "remove", count |-> count,
                                delivered |-> TrySendOk(chan)]
           ELSE UNCHANGED <<chan, lastSend>>
  /\ obsPending' = [obsPending EXCEPT ![r] = FALSE]
  /\ evicted' = [evicted EXCEPT ![r] = TRUE]
  /\ UNCHANGED conn
  /\ UNCHANGED <<settings, mutex, phase, epoch, startResult>>
  /\ UNCHANGED <<renderVars, taskVars, reqVars>>
  /\ UNCHANGED netVars

\* The holder of unblock_rx takes the queued value.
ConsumerRecv ==
  /\ state.unblock_rx # 0
  /\ chan # <<>>
  /\ chan' = Tail(chan)
  /\ UNCHANGED lastSend
  /\ UNCHANGED <<sinkVars, renderVars, taskVars, reqVars, connVars>>
  /\ UNCHANGED netVars

(***************************************************************************)
(* The specification                                                       *)
(***************************************************************************)

(***************************************************************************)
(* The routes of the two HTTP servers                                      *)
(***************************************************************************)

\* The files embedded from static/: index.html and one other file.
Assets == {"index.html", "main.js"}

\* Request URLs: the root, the two assets, a file that is not embedded, and the
\* signalling endpoint.
Urls == {"/", "/index.html", "/main.js", "/missing.css", "/api/session"}

Methods == {"GET", "POST", "PUT"}

\* Whether the body of a request is the JSON of a SessionRequest.
Bodies == {"json", "other"}

\* warp::path::Tail::as_str and &url[1..]: the URL without its leading slash.
WithoutSlash(url) ==
  CASE url = "/" -> ""
    [] url = "/index.html" -> "index.html"
    [] url = "/main.js" -> "main.js"
    [] url = "/missing.css" -> "missing.css"
    [] url = "/api/session" -> "api/session"

\* path_to_serve of the static_assets filter and of handle_static_asset.
PathToServe(tail) == IF tail = "" \/ tail = "/" THEN "index.html" ELSE tail

\* A reply of a route, or its rejection.
Reply(route, code, file) ==
  [route |-> route, status |-> code, served |-> file, rej |-> "none"]

Reject(route, why) == [route |-> route, status |-> 0, served |-> "none", rej |-> why]

\* The api_session filter of the warp server: path, method, JSON body, handler.
ApiSession(method, url, body, ok) ==
  IF url # "/api/session" THEN Reject("api_session", "NotFound")
  ELSE IF method # "POST" THEN Reject("api_session", "MethodNotAllowed")
  ELSE IF body # "json" THEN Reject("api_session", "BodyDeserializeError")
  ELSE IF ok THEN Reply("api_session", 200, "none")
  ELSE Reject("api_session", "SessionError")

\* The static_assets filter of the warp server; it looks at no method.
StaticAssets(url) ==
  LET file == PathToServe(WithoutSlash(url))
  IN IF file \in Assets THEN Reply("static_assets", 200, file)
     ELSE Reject("static_assets", "NotFound")

\* The status warp answers a rejection with; a custom rejection nobody recovers
\* from is a 500.
RejectionStatus(why) ==
  CASE why = "NotFound" -> 404
    [] why = "MethodNotAllowed" -> 405
    [] why = "BodyDeserializeError" -> 400
    [] OTHER -> 500

\* Of the rejections of two filters joined by or, the one warp answers with: not
\* found ranks lowest, method not allowed next, then the higher status.
Preferred(a, b) ==
  LET sa == RejectionStatus(a.rej)
      sb == RejectionStatus(b.rej)
  IN IF sb = 404 THEN a
     ELSE IF sa = 404 THEN b
     ELSE IF sb = 405 THEN a
     ELSE IF sa = 405 THEN b
     ELSE IF sa < sb THEN b
     ELSE a

\* routes = api_session.or(static_assets): the second filter is tried when the
\* first rejects.
WarpRoutes(method, url, body, ok) ==
  LET a == ApiSession(method, url, body, ok)
      b == StaticAssets(url)
  IN IF a.rej = "none" THEN a
     ELSE IF b.rej = "none" THEN b
     ELSE LET p == Preferred(a, b)
          IN [p EXCEPT !.status = RejectionStatus(p.rej)]

\* handle_static_asset of server.rs
HandleStaticAsset(url) ==
  LET file == IF url = "/" \/ url = "" THEN "index.html" ELSE WithoutSlash(url)
  IN IF file \in Assets THEN Reply("static_assets", 200, file)
     ELSE Reply("static_assets", 404, "none")

\* The accept loop of the thread of server::start_http_server.
TinyRoutes(method, url, ok) ==
  IF method = "POST"
  THEN IF url = "/api/session"
       THEN Reply("api_session", IF ok THEN 200 ELSE 500, "none")
       ELSE Reply("none", 404, "none")
  ELSE IF method = "GET" THEN HandleStaticAsset(url)
  ELSE Reply("none", 405, "none")

\* The response to a request and the request it answers.
Answer(front, method, url, res) ==
  [front |-> front, method |-> method, url |-> url, status |-> res.status,
   served |-> res.served, route |-> res.route]

\* The warp server answers a request; ok is whether handle_session_request, if the
\* request reaches it, returns Ok.
WarpRequest(method, url, body, ok) ==
  /\ phase = "started"
  /\ server.st = "listening"
  /\ http' = Answer("warp", method, url, WarpRoutes(method, url, body, ok))
  /\ UNCHANGED <<sinkVars, chanVars, renderVars, taskVars, reqVars, connVars>>
  /\ UNCHANGED <<occupied, server, tiny, find, atStart, locks>>

\* The tiny_http server answers a request.
TinyRequest(method, url, ok) ==
  /\ tiny.st = "listening"
  /\ http' = Answer("tiny_http", method, url, TinyRoutes(method, url, ok))
  /\ UNCHANGED <<sinkVars, chanVars, renderVars, taskVars, reqVars, connVars>>
  /\ UNCHANGED <<occupied, server, tiny, find, atStart, locks>>

(***************************************************************************)
(* The order in which the operations take the two mutexes                  *)
(***************************************************************************)

\* The operations a thread runs.
OpsOf(t) ==
  CASE t = "streaming" -> {"render", "render_skip"}
    [] t = "worker" -> {"snapshot", "insert", "observer"}
    [] OTHER -> {"start", "stop", "set_property", "property"}

Lock(m) == [do |-> "lock", mutex |-> m]

Unlock(m) == [do |-> "unlock", mutex |-> m]

\* The lock and unlock calls of each operation, in program order. A guard is
\* released where it is dropped: at drop(..) or at the end of its block, the
\* later declared guard first.
LockScriptStartNested(op) ==
  CASE op = "start" ->
         <<Lock("settings"), Lock("state"), Unlock("state"), Unlock("settings")>>
    [] op = "render" ->
         <<Lock("state"), Lock("settings"), Unlock("settings"), Unlock("state"),
           Lock("state"), Unlock("state")>>
    [] op = "render_skip" ->
         <<Lock("state"), Lock("settings"), Unlock("settings"), Unlock("state")>>
    [] op \in {"set_property", "property"} -> <<Lock("settings"), Unlock("settings")>>
    [] OTHER -> <<Lock("state"), Unlock("state")>>

LockScript(op) ==
  CASE op = "render" ->
         <<Lock("state"), Lock("settings"), Unlock("settings"), Unlock("state"),
           Lock("state"), Unlock("state")>>
    [] op = "render_skip" ->
         <<Lock("state"), Lock("settings"), Unlock("settings"), Unlock("state")>>
    [] op = "start" ->
         <<Lock("settings"), Unlock("settings"), Lock("state"), Unlock("state")>>
    [] op \in {"set_property", "property"} -> <<Lock("settings"), Unlock("settings")>>
    [] OTHER -> <<Lock("state"), Unlock("state")>>

\* The call thread t is at, or NoStep when it is in no operation.
NoStep == [do |-> "none", mutex |-> "none"]

NextCall(t) == IF locks[t].op = "idle" THEN NoStep ELSE LockScript(locks[t].op)[locks[t].pc]

\* The threads that hold mutex m.
Holders(m) == {t \in Threads : m \in locks[t].held}

\* Thread t after the call it is at: in no operation after the last one.
Advance(t, held) ==
  IF locks[t].pc = Len(LockScript(locks[t].op)) THEN NoOp
  ELSE [locks[t] EXCEPT !.pc = locks[t].pc + 1, !.held = held]

\* Thread t enters operation op.
OpBegin(t, op) ==
  /\ locks[t].op = "idle"
  /\ op \in OpsOf(t)
  /\ locks' = [locks EXCEPT ![t] = [op |-> op, pc |-> 1, held |-> {}]]
  /\ UNCHANGED <<sinkVars, chanVars, renderVars, taskVars, reqVars, connVars>>
  /\ UNCHANGED <<occupied, server, tiny, find, atStart, http>>

\* mutex.lock() of thread t returns: nobody holds the mutex.
LockAcquire(t) ==
  /\ NextCall(t).do = "lock"
  /\ Holders(NextCall(t).mutex) = {}
  /\ locks' = [locks EXCEPT ![t] = Advance(t, locks[t].held \cup {NextCall(t).mutex})]
  /\ UNCHANGED <<sinkVars, chanVars, renderVars, taskVars, reqVars, connVars>>
  /\ UNCHANGED <<occupied, server, tiny, find, atStart, http>>

\* Thread t drops a guard.
LockRelease(t) ==
  /\ NextCall(t).do = "unlock"
  /\ locks' = [locks EXCEPT ![t] = Advance(t, locks[t].held \ {NextCall(t).mutex})]
  /\ UNCHANGED <<sinkVars, chanVars, renderVars, taskVars, reqVars, connVars>>
  /\ UNCHANGED <<occupied, server, tiny, find, atStart, http>>

\* start and stop
LifecycleNext ==
  \/ Start
  \/ StartFail
  \/ ServerBind
  \/ StopBegin
  \/ StopEnd

\* render, its write tasks and the is-live property
ForwarderNext ==
  \/ \E b \in BOOLEAN : SetIsLive(b)
  \/ \E m \in BOOLEAN : RenderRead(m)
  \/ RenderMap
  \/ RenderDispatch
  \/ \E i \in 1..MaxRenders : TaskPoll(i)
  \/ \E i \in 1..MaxRenders, ok \in BOOLEAN : WriteSample(i, ok)
  \/ \E i \in 1..MaxRenders : TaskCancel(i)

\* signalling requests, peer connections, observers, the peer-count consumer
SignallingNext ==
  \/ \E r \in Sessions, route \in Routes, o \in Offers : Accept(r, route, o)
  \/ \E r \in Sessions : Snapshot(r)
  \/ \E r \in Sessions, out \in Outcomes : Negotiate(r, out)
  \/ \E r \in Sessions : Insert(r)
  \/ \E r \in Sessions : RegisterObserver(r)
  \/ \E r \in Sessions, s \in ConnStates : ConnChange(r, s)
  \/ \E r \in Sessions : ObserverEvict(r)
  \/ ConsumerRecv

\* The peers as the forwarder meets them: requests served by warp that succeed,
\* peer connections that close.
PeersNext ==
  \/ \E r \in Sessions : Accept(r, "warp", "valid")
  \/ \E r \in Sessions : Snapshot(r)
  \/ \E r \in Sessions : Negotiate(r, "ok")
  \/ \E r \in Sessions : Insert(r)
  \/ \E r \in Sessions : RegisterObserver(r)
  \/ \E r \in Sessions : ConnChange(r, "Closed")
  \/ \E r \in Sessions : ObserverEvict(r)

\* format events on the sink pad
PadNext == \E d \in Descriptors : CapsEvent(d)

\* the lock and unlock calls of the operations
LocksNext ==
  \/ \E t \in Threads : \E op \in OpsOf(t) : OpBegin(t, op)
  \/ \E t \in Threads : LockAcquire(t)
  \/ \E t \in Threads : LockRelease(t)

\* HTTP requests to either server
HttpNext ==
  \/ \E method \in Methods, url \in Urls, body \in Bodies, ok \in BOOLEAN :
       WarpRequest(method, url, body, ok)
  \/ \E method \in Methods, url \in Urls, ok \in BOOLEAN : TinyRequest(method, url, ok)

\* the port and stun-server properties
PropertyNext ==
  \/ \E p \in RequestPorts : SetPort(p)
  \/ \E stun \in StunServers : SetStunServer(stun)

\* other processes binding and releasing single ports
EnvNext ==
  \/ \E p \in EnvPorts : EnvBind(p)
  \/ \E p \in EnvPorts : EnvRelease(p)

\* find_available_port and start_http_server of server.rs
ServerNext ==
  \/ \E p \in RequestPorts : StartHttpServer(p)
  \/ FindProbe
  \/ TinyBind

Next ==
  \/ LifecycleNext
  \/ ForwarderNext
  \/ PadNext
  \/ HttpNext
  \/ LocksNext
  \/ SignallingNext
  \/ PropertyNext
  \/ EnvNext
  \/ EnvBindBlock
  \/ ServerNext
  \/ \E p \in RequestPorts : FindAvailablePort(p)

\* The whole sink.
Spec == Init /\ [][Next]_vars

\* The forwarder: start and stop, render and its write tasks, peers joining and
\* leaving.
SpecRender == Init /\ [][LifecycleNext \/ ForwarderNext \/ PeersNext]_vars

\* The dispatch of the write tasks: start and stop, peers that come and go, render
\* and its tasks, with the properties as they are after construction.
SpecDispatch ==
  Init /\ [][\/ Start
             \/ ServerBind
             \/ StopBegin
             \/ StopEnd
             \/ PeersNext
             \/ \E m \in BOOLEAN : RenderRead(m)
             \/ RenderMap
             \/ RenderDispatch
             \/ \E i \in 1..MaxRenders : TaskPoll(i)
             \/ \E i \in 1..MaxRenders, ok \in BOOLEAN : WriteSample(i, ok)
             \/ \E i \in 1..MaxRenders : TaskCancel(i)]_vars

\* The signalling plane: start and stop, requests, observers, the channel.
SpecSignal == Init /\ [][LifecycleNext \/ SignallingNext]_vars

\* find_available_port among other processes that bind and release ports.
SpecPort ==
  Init /\ [][\/ EnvNext
             \/ EnvBindBlock
             \/ \E p \in RequestPorts : FindAvailablePort(p)
             \/ FindProbe]_vars

\* The HTTP servers: start and stop with the port property, start_http_server of
\* server.rs, other processes.
SpecServer ==
  Init /\ [][\/ LifecycleNext
             \/ \E p \in RequestPorts : SetPort(p)
             \/ EnvNext
             \/ ServerNext]_vars

\* The properties: start and stop, the three setters, render up to its buffer map.
SpecSettings ==
  Init /\ [][\/ LifecycleNext
             \/ PropertyNext
             \/ \E b \in BOOLEAN : SetIsLive(b)
             \/ \E m \in BOOLEAN : RenderRead(m)
             \/ RenderMap]_vars

\* The routes: start and stop, start_http_server of server.rs, HTTP requests.
SpecHttp == Init /\ [][LifecycleNext \/ ServerNext \/ HttpNext]_vars

\* Requests handled at the same time by the warp server of one start: no stop, no
\* connection closes.
SpecConcurrent ==
  Init /\ [][\/ Start
             \/ ServerBind
             \/ \E r \in Concurrent, o \in Offers : Accept(r, "warp", o)
             \/ \E r \in Concurrent : Snapshot(r)
             \/ \E r \in Concurrent, out \in Outcomes : Negotiate(r, out)
             \/ \E r \in Concurrent : Insert(r)
             \/ \E r \in Concurrent : RegisterObserver(r)]_vars

\* The two mutexes and the threads that take them.
SpecLocks == Init /\ [][LocksNext]_vars

\* The sink pad: start and stop, format events, render up to its buffer map.
SpecPad ==
  Init /\ [][\/ LifecycleNext
             \/ PadNext
             \/ \E m \in BOOLEAN : RenderRead(m)
             \/ RenderMap]_vars

(***************************************************************************)
(* Properties of render (checked under SpecRender)                         *)
(***************************************************************************)

\* The last render call has returned.
Returned == rcall.pc = "idle" /\ rcall.result # "none"

\* C1: a render call that read is_live = true and an empty registry has returned
\* Ok in its first step, has not mapped the buffer and has spawned no write task.
C1_LiveWithoutPeersSkips ==
  (rcall.is_live /\ rcall.num_peers = 0) =>
    /\ rcall.pc = "idle"
    /\ rcall.result = "Ok"
    /\ rcall.map = "none"
    /\ ~rcall.spawned

\* C1 witness: such a call has been made while the sink was started.
C1_Witness ==
  /\ Returned
  /\ rcall.is_live
  /\ rcall.num_peers = 0
  /\ rcall.track # 0

TrackAbsent == rcall.track = 0

\* C3 as stated: a render call that is not skipped and finds no track returns an
\* error.
C3_AsStated ==
  (Returned /\ ~(rcall.is_live /\ rcall.num_peers = 0) /\ TrackAbsent) =>
    rcall.result = "Error"

\* C3 as amended: a render call that is not skipped and finds no track spawns no
\* write task and returns Ok, unless the buffer could not be mapped.
C3_NoTrackReturnsOk ==
  (Returned /\ ~(rcall.is_live /\ rcall.num_peers = 0) /\ TrackAbsent) =>
    /\ ~rcall.spawned
    /\ rcall.result = (IF rcall.mappable THEN "Ok" ELSE "Error")

\* C3 witness: a call that counted a peer reached its second critical section
\* after stop had cleared the track, and returned Ok.
C3_Witness ==
  /\ Returned
  /\ rcall.num_peers > 0
  /\ TrackAbsent
  /\ rcall.result = "Ok"

\* C4: render returns Error only for a buffer whose mapping failed, whatever the
\* writes before it did; render returns in the step that spawns the write task,
\* which is then still pending; and no write_sample, failed or not, changes
\* anything of a render call.
C4_WriteNeverReachesRender ==
  /\ [](Returned => (rcall.result = "Error" <=> rcall.map = "err"))
  /\ [](Returned /\ rcall.mappable => rcall.result = "Ok")
  /\ [][(rcall.pc = "dispatch" /\ rcall'.pc = "idle" /\ rcall'.spawned) =>
          /\ rcall'.result = "Ok"
          /\ Len(tasks') = Len(tasks) + 1
          /\ tasks'[Len(tasks')].st = "pending"]_vars
  /\ [][writes' # writes => rcall' = rcall]_vars

\* C4 witness: after a failed write a later render call has returned Ok and its
\* own write task has not run yet.
C4_Witness ==
  /\ failLogged
  /\ Returned
  /\ rcall.spawned
  /\ rcall.result = "Ok"
  /\ render_count = 2
  /\ Len(tasks) = 1
  /\ tasks[1].st = "pending"

\* C5: every write_sample is made to the track that is in the state at that
\* moment: none is made once stop has cleared the track, nor to the track of an
\* earlier start.
C5_NoWriteAfterStop ==
  [][writes' # writes =>
       (state.video_track # 0 /\ lastWrite' = state.video_track /\ phase # "null")]_vars

\* C5 witness: render spawned a write task, stop has completed, and the task is
\* gone without having written.
C5_Witness ==
  /\ phase = "null"
  /\ epoch > 0
  /\ rcall.spawned
  /\ writes = 0
  /\ tasks = <<>>

(***************************************************************************)
(* Properties of signalling (checked under SpecSignal)                     *)
(***************************************************************************)

\* C6: a session whose observer has run its removal is not in the registry.
C6_EvictedAbsent ==
  \A r \in Sessions : evicted[r] => r \notin state.peer_connections

\* C6 witness: a session that was inserted has been evicted while the sink runs.
C6_Witness ==
  \E r \in Sessions : evicted[r] /\ pushed[r] /\ phase = "started"

\* C7 as stated: the count offered to the channel by a removal is queued in it.
C7_AsStated == lastSend.op = "remove" => lastSend.delivered

\* C8 as stated: a value held in the channel is the count of the most recent
\* insert or remove.
C8_AsStated == chan # <<>> => chan[1] = lastSend.count

\* C9: a failed request has status 500, is not in the registry and has offered no
\* count; the step in which it fails changes neither the state nor the channel; a
\* session in the registry has a peer connection with its local description set,
\* and its request has passed the insert without an error.
C9_FailedNotRetained ==
  /\ [](\A r \in Sessions :
          /\ rq[r] = "failed" =>
               (status[r] = 500 /\ r \notin state.peer_connections /\ ~pushed[r])
          /\ r \in state.peer_connections =>
               (created[r] /\ localDesc[r] /\ err[r] = "none"
                /\ rq[r] \in {"inserted", "ok"}))
  /\ [][\A r \in Sessions :
          (rq[r] # "failed" /\ rq'[r] = "failed") =>
            (state' = state /\ chan' = chan /\ lastSend' = lastSend)]_vars

\* C9 witness: a request has failed at the last step before the insert, with its
\* local description set, while the sink runs.
C9_Witness ==
  \E r \in Sessions :
    /\ rq[r] = "failed"
    /\ err[r] = "NoLocalDescription"
    /\ localDesc[r]
    /\ phase = "started"

\* C10: a request that takes its snapshot while the configuration or the track is
\* None fails with NotReady, in a step that changes neither the state nor the
\* channel, and has no peer connection.
C10_NotReady ==
  /\ [][\A r \in Sessions :
          (/\ rq[r] = "accepted"
           /\ rq'[r] \notin {"accepted", "dropped"}
           /\ (state.webrtc_config = 0 \/ state.video_track = 0)) =>
            (/\ rq'[r] = "failed"
             /\ err'[r] = "NotReady"
             /\ status'[r] = 500
             /\ state' = state
             /\ chan' = chan)]_vars
  /\ [](\A r \in Sessions :
          err[r] = "NotReady" =>
            (~created[r] /\ conn[r] = "none" /\ r \notin state.peer_connections))

\* C10 witness: a request made after stop has failed with NotReady.
C10_Witness ==
  \E r \in Sessions :
    /\ err[r] = "NotReady"
    /\ phase = "null"
    /\ epoch > 0

\* The request has been answered.
Answered(r) == status[r] # 0

\* C11 as stated, for the requests that no engine call fails: an answered request
\* that carried a valid offer while the sink was started had that offer
\* negotiated, has status 200 with an answer and a session id, and was inserted
\* in the registry.
C11_AsStated ==
  \A r \in Sessions :
    (/\ Answered(r)
     /\ offer[r].body = "valid"
     /\ err[r] \notin {"NotReady", "EngineError", "SdpError", "NoLocalDescription"}) =>
      /\ offer[r].given = offer[r].body
      /\ status[r] = 200
      /\ {"answer", "session_id"} \subseteq reply[r]
      /\ pushed[r]

LastProbe(start_port) ==
  IF start_port + 100 < 65535 THEN start_port + 100 ELSE 65535

\* C13: a call for a port P other than 0 that returns a port returns one of
\* P..min(P+100, 65535), every port below it from P on having failed to bind
\* because it was taken when tried, and the port returned being free when tried:
\* P itself when P is free, a higher port of the range when P is taken.
C13_LowestBindable ==
  /\ [](find.pc = "done" /\ find.start_port # 0 /\ find.result = "Ok" =>
          /\ find.ret \in find.start_port..LastProbe(find.start_port)
          /\ find.failed = find.start_port..(find.ret - 1))
  /\ [][find.pc = "probe" =>
          /\ (find'.failed \ find.failed) \subseteq ({find.port} \cap occupied)
          /\ (find'.pc = "done" /\ find'.result = "Ok") =>
               (find'.ret = find.port /\ find.port \notin occupied)]_vars

\* C13 witness: the default port was taken and the call returned the port after it.
C13_Witness ==
  /\ find.pc = "done"
  /\ find.result = "Ok"
  /\ find.start_port = DEFAULT_PORT
  /\ find.ret = DEFAULT_PORT + 1
  /\ DEFAULT_PORT \in occupied

\* C14: a call for port 0 that returns a port returns the port the system
\* assigned to the bind, a free port greater than 0; it returns the error of
\* the bind only when the system has no port to assign.
C14_EphemeralPositive ==
  /\ [](find.pc = "done" /\ find.start_port = 0 /\ find.result = "Ok" =>
          (find.ret > 0 /\ find.ret \in EphemeralPorts))
  /\ [][(find' # find /\ find'.pc = "done" /\ find'.start_port = 0) =>
          IF find'.result = "Ok"
          THEN find'.ret \notin occupied
          ELSE EphemeralPorts \subseteq occupied]_vars

\* C14 witness: a call for port 0 returned the second port of the system's range,
\* the first being taken.
C14_Witness ==
  /\ find.pc = "done"
  /\ find.start_port = 0
  /\ find.result = "Ok"
  /\ find.ret = 32769
  /\ 32768 \in occupied

\* C15: a call for a port P other than 0 tries the ports from P upwards in order,
\* never a port outside P..min(P+100, 65535) and so at most 101 ports, its
\* counter never wraps below P, and it returns the error exactly when every port
\* of the range has failed to bind.
C15_BoundedProbe ==
  find.start_port # 0 =>
    /\ find.failed \subseteq find.start_port..LastProbe(find.start_port)
    /\ Cardinality(find.failed) <= 101
    /\ find.pc = "probe" =>
         /\ find.port >= find.start_port
         /\ find.port <= LastProbe(find.start_port) + 1
         /\ find.port <= 65535
         /\ find.failed = find.start_port..(find.port - 1)
    /\ find.pc = "done" =>
         (find.result = "Err" <=>
            find.failed = find.start_port..LastProbe(find.start_port))

\* C15 witness: a call for port 65535, which was taken, returned the error after
\* that one port.
C15_Witness ==
  /\ find.pc = "done"
  /\ find.start_port = 65535
  /\ find.result = "Err"
  /\ find.failed = {65535}

(***************************************************************************)
(* Properties of the HTTP servers (checked under SpecServer)               *)
(***************************************************************************)

\* C16 as stated: when the sink's server task found the port of the port
\* property taken and one of the 100 ports after it free, start has succeeded and
\* the server listens on one of those ports.
C16_AsStated ==
  (phase = "started" /\ server.port # 0 /\ server.busy /\ server.alt) =>
    /\ startResult = "Ok"
    /\ server.st = "listening"
    /\ server.port < server.bound
    /\ server.bound <= server.port + 100

\* C17 as stated: the sink is never started, start having returned Ok, with a
\* server task that could not bind its port when none of the 100 ports after it
\* was free either.
C17_AsStated ==
  ~(phase = "started" /\ startResult = "Ok" /\ server.st = "failed" /\ ~server.alt)

\* C18 as stated: once the task of a start_http_server that returned Ok((_, port))
\* has tried its bind, the server listens on the port that was returned.
C18_AsStated ==
  (tiny.ret = "Ok" /\ tiny.st \in {"listening", "failed"}) =>
    (tiny.st = "listening" /\ tiny.bound = tiny.port)

\* C19 as stated: when stop has returned no server of the sink listens on a port.
C19_AsStated ==
  (phase = "null" /\ epoch > 0) =>
    /\ OwnBound = {}
    /\ server.st # "listening"
    /\ tiny.st # "listening"

(***************************************************************************)
(* Properties of the settings (checked under SpecSettings)                 *)
(***************************************************************************)

\* The running instance has the port and the ICE servers of the settings as they
\* were at the most recent start, and a change of the settings changes neither
\* the state nor the server task.
RunningKeepsStartValues ==
  /\ [](phase = "started" =>
          /\ server.port = atStart.port
          /\ state.ice_servers =
               (IF atStart.stun_server = "" THEN {} ELSE {atStart.stun_server}))
  /\ [][settings' # settings =>
          (state' = state /\ server' = server /\ atStart' = atStart)]_vars

\* C20 as stated: the running instance keeps the port and the ICE servers of the
\* most recent start, and a render call of a started sink decides with the
\* is_live that was set at the most recent start.
C20_AsStated ==
  /\ RunningKeepsStartValues
  /\ [][(phase = "started" /\ render_count' # render_count) =>
          rcall'.is_live = atStart.is_live]_vars

\* C20 as amended: the running instance keeps the port and the ICE servers of
\* the most recent start, and every render call decides with the is_live that is
\* set when it is called.
C20_PortAndStunAtStart ==
  /\ RunningKeepsStartValues
  /\ [][render_count' # render_count => rcall'.is_live = settings.is_live]_vars

\* C20 witness: all three properties were changed after the start, the server
\* listens on the port of the start, and a render call has used the new is_live.
C20_Witness ==
  /\ phase = "started"
  /\ server.st = "listening"
  /\ settings.port # atStart.port
  /\ server.bound = atStart.port
  /\ settings.stun_server # atStart.stun_server
  /\ state.ice_servers = {atStart.stun_server}
  /\ Returned
  /\ rcall.is_live # atStart.is_live

(***************************************************************************)
(* Start and stop                                                          *)
(***************************************************************************)

\* C21: from the return of a successful start and for as long as the sink is
\* started, the shared state holds the runtime, both ends of the peer-count
\* channel, the configuration, the track and the handle of the server task; when
\* stop returns, the server task has been aborted and its handle taken, the
\* registry is empty and the runtime, the channel, the track and the
\* configuration are absent. This holds for every start and stop of a sequence.
C21_StartStopContents ==
  [][/\ phase' = "started" =>
          /\ state'.runtime # 0
          /\ state'.unblock_tx # 0 /\ state'.unblock_rx # 0
          /\ state'.webrtc_config # 0
          /\ state'.video_track # 0
          /\ state'.server_handle # 0
          /\ (phase = "null" => server'.st = "spawned")
     /\ (phase = "stopping" /\ phase' = "null") =>
          /\ server.st \notin {"spawned", "listening"}
          /\ server'.st = "none"
          /\ state' = StateDefault]_vars

\* A second stop has returned, and before one of the stops a session had been
\* inserted into the registry.
C21_Witness ==
  /\ phase = "null"
  /\ epoch = 2
  /\ state = StateDefault
  /\ \E r \in Sessions : pushed[r]

(***************************************************************************)
(* The sink pad and its formats (checked under SpecPad)                    *)
(***************************************************************************)

\* The codec a media type or an encoding-name stands for, "none" for any other.
CodecOf(name) ==
  CASE name \in {"video/x-h264", "H264"} -> "H264"
    [] name \in {"video/x-h265", "H265"} -> "H265"
    [] name \in {"video/x-vp8", "VP8"} -> "VP8"
    [] name \in {"video/x-vp9", "VP9"} -> "VP9"
    [] OTHER -> "none"

\* The fixed table of codecs and modes.
FixedTable(d) ==
  IF d.media = "application/x-rtp"
  THEN IF CodecOf(d.encoding) # "none"
       THEN [codec |-> CodecOf(d.encoding), mode |-> "Rtp"]
       ELSE Unsupported
  ELSE IF CodecOf(d.media) # "none"
       THEN [codec |-> CodecOf(d.media), mode |-> "Sample"]
       ELSE Unsupported

\* C22 as stated: every format is classified as the fixed table says, and the
\* format event is rejected exactly when the table has no entry for the format.
C22_AsStated ==
  pad.result # "none" =>
    /\ Classify(pad.desc) = FixedTable(pad.desc)
    /\ (pad.result = "rejected" <=> FixedTable(pad.desc) = Unsupported)

\* C23 as stated: the bound pads and the live tracks correspond one to one. The
\* sink has one pad and one track, so the pad is bound exactly when the track
\* exists.
C23_AsStated == (pad.result = "accepted") <=> (state.video_track # 0)

\* H.264 in RTP packets.
RtpH264 ==
  [media |-> "application/x-rtp", encoding |-> "H264", stream_format |-> "none",
   alignment |-> "none"]

\* C24 as stated: an H.264 RTP format is taken in Rtp mode, and every buffer that
\* arrives under it and can be read leads to one attempted track write.
C24_AsStated ==
  /\ pad.desc = RtpH264 =>
       /\ pad.result = "accepted"
       /\ Classify(pad.desc).mode = "Rtp"
  /\ (Returned /\ rcall.caps = RtpH264 /\ rcall.mappable) => rcall.spawned

(***************************************************************************)
(* The HTTP routes (checked under SpecHttp)                                *)
(***************************************************************************)

\* C25 as stated: a GET of / is answered with index.html, a GET of any other path
\* with the asset of that name, or with status 404 when there is none; a POST of
\* /api/session is answered by the signalling route, never with an asset.
C25_AsStated ==
  /\ http.method = "GET" =>
       /\ http.url = "/" => (http.served = "index.html" /\ http.status = 200)
       /\ (http.url # "/" /\ WithoutSlash(http.url) \in Assets) =>
            (http.served = WithoutSlash(http.url) /\ http.status = 200)
       /\ (http.url # "/" /\ WithoutSlash(http.url) \notin Assets) =>
            (http.served = "none" /\ http.status = 404)
  /\ (http.method = "POST" /\ http.url = "/api/session") =>
       (http.route = "api_session" /\ http.served = "none")

(***************************************************************************)
(* The registry, the channel and stop (checked under SpecSignal)           *)
(***************************************************************************)

\* Request r inserts its session in this step.
InsertStep(r) == rq[r] = "insert" /\ rq'[r] = "inserted"

\* The observer of request r runs its removal in this step.
EvictStep(r) == obsPending[r] /\ ~obsPending'[r]

\* C26: a step that inserts or removes a session while the channel exists offers
\* the channel the size the registry has after that step, and the channel takes
\* a value at no other step.
C26_PushedCountIsRegistrySize ==
  [][/\ \A r \in Sessions :
          ((InsertStep(r) \/ EvictStep(r)) /\ state.unblock_tx # 0) =>
            /\ lastSend'.count = Cardinality(state'.peer_connections)
            /\ lastSend'.op = IF InsertStep(r) THEN "insert" ELSE "remove"
            /\ \/ chan' = Append(chan, Cardinality(state'.peer_connections))
               \/ (chan' = chan /\ ~lastSend'.delivered)
     /\ Len(chan') > Len(chan) => \E r \in Sessions : InsertStep(r) \/ EvictStep(r)]_vars

\* An insert has offered 1 and the removal of the same session has offered 0, the
\* size of the registry at that moment.
C26_Witness ==
  /\ \E r \in Sessions : pushed[r] /\ evicted[r]
  /\ lastSend.op = "remove"
  /\ lastSend.count = 0
  /\ state.peer_connections = {}
  /\ phase = "started"

\* C27 as stated: the state mutex is held only inside critical sections that wait
\* for nothing, so no operation holds it from one step to the next: not while it
\* awaits, not while it waits for the runtime to shut down.
C27_AsStated == mutex = "free"

C29_OnlyTerminalEvicts ==
  [][\A r \in Sessions :
       /\ (conn'[r] # conn[r] /\ conn'[r] \in {"New", "Connecting", "Connected"}) =>
            /\ state' = state
            /\ chan' = chan /\ lastSend' = lastSend
            /\ ~obsPending'[r]
       /\ (~obsPending[r] /\ obsPending'[r]) =>
            conn'[r] \in {"Disconnected", "Failed", "Closed"}
       /\ (r \in state.peer_connections /\ r \notin state'.peer_connections) =>
            (EvictStep(r) \/ phase' = "stopping")
       /\ evicted[r] => r \notin state'.peer_connections]_vars

\* A session was removed when its connection was Disconnected, and the connection
\* is Connected again; the session is not in the registry.
C29_Witness ==
  \E r \in Sessions :
    /\ evicted[r]
    /\ conn[r] = "Connected"
    /\ r \notin state.peer_connections
    /\ phase = "started"

\* A worker of the runtime is at state.lock() for request r: in the insert of the
\* request or in its observer.
WorkerAtLock(r) == via[r] = "runtime" /\ (rq[r] = "insert" \/ obsPending[r])

\* C30 as stated: stop always returns. stop returns once the runtime's workers
\* have finished what they are polling, and a worker at state.lock() finishes
\* once the mutex is free; so stop, which holds the mutex until it returns, must
\* never be waiting for the runtime while a worker is at state.lock().
C30_AsStated ==
  ~(phase = "stopping" /\ mutex = "stop" /\ \E r \in Sessions : WorkerAtLock(r))

\* The connection of request r is closed for good, its session is in the registry
\* of the started sink, and no observer is on its way to remove it.
ClosedAndKept(r) ==
  /\ phase = "started"
  /\ r \in state.peer_connections
  /\ conn[r] = "Closed"
  /\ ~obsPending[r]
  /\ rq[r] = "ok"

\* C31 as stated: a session whose connection has reached a terminal state is
\* removed, also when the connection got there between the insert and the
\* registration of the observer; so no session of a closed connection, which
\* changes state no more, is left in the registry with nothing to remove it.
C31_AsStated == \A r \in Sessions : ~ClosedAndKept(r)

(***************************************************************************)
(* render among evictions and stop (checked under SpecDispatch)            *)
(***************************************************************************)

\* render hands a write task to the runtime in this step.
SpawnStep == Len(tasks') > Len(tasks)

\* C32 as stated: render dispatches a write only if the registry is non-empty at
\* the moment of the dispatch.
C32_AsStated == [][SpawnStep => state.peer_connections # {}]_vars

\* C32, amended: render dispatches a write only if the count it read in its first
\* critical section was positive and the state, at the dispatch, holds a track
\* and a runtime; the count is not read again.
C32_CountReadAtEntry ==
  [][SpawnStep =>
       /\ rcall.num_peers > 0
       /\ rcall'.num_peers = rcall.num_peers
       /\ state.video_track # 0
       /\ state.runtime # 0]_vars

\* render read one peer, the peer was evicted, and render dispatched the write.
C32_Witness ==
  /\ Returned
  /\ rcall.spawned
  /\ rcall.num_peers = 1
  /\ state.peer_connections = {}
  /\ \E r \in Sessions : evicted[r]
  /\ phase = "started"

(***************************************************************************)
(* Connected peers and concurrent requests                                 *)
(***************************************************************************)

\* C33 as stated: while the sink is started, the session of every peer connection
\* that is Connected is in the registry, also after the connection was
\* Disconnected in between.
C33_AsStated ==
  \A r \in Sessions :
    (phase = "started" /\ conn[r] = "Connected" /\ snapTrack[r] = epoch) =>
      r \in state.peer_connections

\* The requests that have inserted their session.
Inserted == {r \in Requests : rq[r] \in {"inserted", "ok"}}

\* C34: with requests handled at the same time and no eviction or stop, the
\* registry holds exactly the sessions of the requests that have inserted, one
\* entry each: after k inserts its size is k, in every order of their steps.
C34_NoInsertLost ==
  /\ state.peer_connections = Inserted
  /\ Cardinality(state.peer_connections) = Cardinality(Inserted)

\* Two requests were in their handlers at the same time (one has returned, the
\* other has inserted and not yet returned) and the registry holds both sessions.
C34_Witness ==
  /\ Cardinality(state.peer_connections) = 2
  /\ \E r1, r2 \in Concurrent : rq[r1] = "ok" /\ rq[r2] = "inserted" /\ snapTrack[r2] = epoch

(***************************************************************************)
(* The order of the mutexes (checked under SpecLocks)                      *)
(***************************************************************************)

\* Thread t is at a lock() of mutex m.
AtLock(t, m) == NextCall(t) = Lock(m)

\* C35: no thread is at a lock() of the state mutex while it holds the settings
\* mutex, so no two threads ever wait for each other's mutex.
C35_LockOrder ==
  /\ \A t \in Threads : AtLock(t, "state") => "settings" \notin locks[t].held
  /\ \A t1, t2 \in Threads :
       ~(/\ AtLock(t1, "settings") /\ "state" \in locks[t1].held
         /\ AtLock(t2, "state") /\ "settings" \in locks[t2].held)

\* render holds the state mutex and is at its lock() of the settings mutex, which
\* start, on another thread, holds.
C35_Witness ==
  /\ locks["streaming"].op = "render"
  /\ locks["streaming"].held = {"state"}
  /\ AtLock("streaming", "settings")
  /\ \E t \in Threads : locks[t].op = "start" /\ locks[t].held = {"settings"}

(***************************************************************************)
(* The order of the write tasks (checked under SpecDispatch)               *)
(***************************************************************************)

\* C36: the write tasks are handed to the runtime in the order of their buffers,
\* one task per buffer: a task is spawned only by the dispatch of the render call
\* in progress, which then returns; it joins the runtime's tasks behind those of
\* the earlier buffers and carries a copy of the payload of that call's buffer;
\* and render is called with the next buffer only after the call before it has
\* returned.
C36_PipelineOrder ==
  /\ [][SpawnStep =>
          /\ rcall.pc = "dispatch" /\ rcall'.pc = "idle"
          /\ Len(tasks') = Len(tasks) + 1
          /\ SubSeq(tasks', 1, Len(tasks)) = tasks
          /\ tasks'[Len(tasks')].st = "pending"
          /\ rcall'.data_copy = BufferData(render_count)
          /\ render_count' = render_count]_vars
  /\ [][render_count' # render_count =>
          (rcall.pc = "idle" /\ render_count' = render_count + 1)]_vars

\* Two buffers were rendered with a peer present; the task of the first is being
\* polled when the task of the second, with the second payload, joins behind it.
C36_Witness ==
  /\ Len(tasks) = 2
  /\ tasks[1].st = "running"
  /\ tasks[2].st = "pending"
  /\ render_count = 2
  /\ Returned
  /\ rcall.spawned
  /\ rcall.data_copy = BufferData(2)

====
